---- MODULE Spec2Model ----
(***************************************************************************)
(* A model of scripts/daily-portfolio-maintenance.js: the fact rotation    *)
(* cursor, the repository statistics collector, the linters and the health *)
(* report, the stale-issue closer and the top-level orchestrator.          *)
(*                                                                         *)
(* JavaScript values that matter to the code's arithmetic are modelled as  *)
(* tagged records [t, n]: t is "num", "nan", "null" or "undefined".        *)
(***************************************************************************)
EXTENDS Integers, Sequences, FiniteSets, TLC

\* ------------------------------------------------------------------------
\* State.  Each function of the script is modelled over its own variables;
\* a specification runs one of them and leaves the others idle.
\* ------------------------------------------------------------------------
VARIABLES
  \* updateDailyFact / rotateFactCategory
  rotationFile,       \* contents of data/fact-rotation-state.json
  dailyFactFile,      \* contents of data/daily-fact.json
  log,                \* what each invocation found, returned and left
  \* closeStaleIssues
  remoteIssues,       \* the repository's issues, by number
  daysInactive,       \* the daysInactive argument
  st_pc,              \* where closeStaleIssues stands
  staleIssues,        \* the filtered issue numbers
  st_i,               \* position of the for-of loop in staleIssues
  closed,             \* the closed array
  calls,              \* createComment / update calls issued, in order
  staleResult,        \* the value closeStaleIssues returns
  \* fetchRepositoryStats
  remotePages,        \* what listForUser answers, by page number
  page,               \* the page counter
  repos,              \* the repos array
  requests,           \* listForUser requests issued, in order
  f_pc,               \* where fetchRepositoryStats stands
  pending,            \* enrichment tasks awaiting getCommitActivityData
  stats,              \* the stats records, one per repository
  responses,          \* what getCommitActivityData answered, by task
  fetchResult,        \* the value fetchRepositoryStats returns
  \* saveRepositoryStats
  rankInput,          \* the stats argument
  rank_pc,            \* where saveRepositoryStats stands
  summary,            \* summary.most_active
  \* runLinters / generateHealthReport
  lintResults,        \* the value runLinters returns
  report_pc,          \* where the report pipeline stands
  report,             \* report.recommendations
  \* runDailyMaintenance
  m_pc,               \* where runDailyMaintenance stands
  invoked,            \* the sections invoked so far, in order
  repoStats,          \* is_archived of each repository of repoStats
  m_k,                \* position of the lifecycle loop in repoStats.slice(0, 5)
  maintenanceResults, \* length of maintenanceResults
  mainResult          \* the value runDailyMaintenance returns

rotVars == <<rotationFile, dailyFactFile, log>>
staleVars == <<remoteIssues, daysInactive, st_pc, staleIssues, st_i, closed, calls, staleResult>>
fetchVars == <<remotePages, page, repos, requests, f_pc, pending, stats, responses, fetchResult>>
rankVars == <<rankInput, rank_pc, summary>>
reportVars == <<lintResults, report_pc, report>>
mainVars == <<m_pc, invoked, repoStats, m_k, maintenanceResults, mainResult>>
vars == <<rotVars, staleVars, fetchVars, rankVars, reportVars, mainVars>>

\* What a function leaves alone: the state of the others
outsideRotation == <<staleVars, fetchVars, rankVars, reportVars, mainVars>>
outsideStale == <<rotVars, fetchVars, rankVars, reportVars, mainVars>>
outsideFetch == <<rotVars, staleVars, rankVars, reportVars, mainVars>>
outsideRank == <<rotVars, staleVars, fetchVars, reportVars, mainVars>>
outsideReport == <<rotVars, staleVars, fetchVars, rankVars, mainVars>>
outsideMain == <<log, staleVars, fetchVars, rankVars, reportVars>>

\* ------------------------------------------------------------------------
\* Bounds of the model
\* ------------------------------------------------------------------------
MaxRuns == 4

\* ------------------------------------------------------------------------
\* JavaScript values and arithmetic
\* ------------------------------------------------------------------------
Undefined == [t |-> "undefined", n |-> 0]
Null == [t |-> "null", n |-> 0]
NaN == [t |-> "nan", n |-> 0]
Num(k) == [t |-> "num", n |-> k]

\* ToNumber: undefined -> NaN, null -> +0
ToNumber(v) ==
  CASE v.t = "undefined" -> NaN
    [] v.t = "null" -> Num(0)
    [] OTHER -> v

\* x + 1 on a non-string operand
JsPlusOne(v) ==
  LET x == ToNumber(v) IN IF x.t = "nan" THEN NaN ELSE Num(x.n + 1)

\* x % m: the remainder takes the sign of the dividend; NaN stays NaN
JsRemainder(v, m) ==
  IF v.t = "nan" THEN NaN
  ELSE IF v.n >= 0 THEN Num(v.n % m) ELSE Num(0 - ((0 - v.n) % m))

\* JSON.stringify of a number: NaN is written as null
JsonNumber(v) == IF v.t = "nan" THEN Null ELSE v

\* ------------------------------------------------------------------------
\* SECTION 1: daily fact rotation
\* ------------------------------------------------------------------------
ROTATION_CYCLE == <<"LIFE", "PEOPLE", "TECH">>

\* FACT_CATEGORIES: the number of facts each category lists
FACT_CATEGORIES == [c \in {"LIFE", "PEOPLE", "TECH"} |-> 5]

\* ROTATION_CYCLE[i] for a JavaScript value i (arrays are zero-based)
CycleAt(v) ==
  IF v.t = "num" /\ v.n \in 0..(Len(ROTATION_CYCLE) - 1)
  THEN ROTATION_CYCLE[v.n + 1]
  ELSE "undefined"

\* Contents of data/fact-rotation-state.json.
\*   absent  : no such file
\*   garbage : not JSON (or unreadable): JSON.parse / readFileSync throws
\*   null    : the JSON literal null: reading .currentIndex throws
\*   object  : any other JSON value; currentIndex is Undefined when it has
\*             no such key
AbsentFile == [kind |-> "absent", currentIndex |-> Undefined, currentCategory |-> "undefined"]
GarbageFile == [kind |-> "garbage", currentIndex |-> Undefined, currentCategory |-> "undefined"]
JsonNullFile == [kind |-> "null", currentIndex |-> Undefined, currentCategory |-> "undefined"]
StateFile(idx, cat) == [kind |-> "object", currentIndex |-> idx, currentCategory |-> cat]

\* A file holding a rotation state: currentIndex in [0, cycle length)
IsRotationState(f) ==
  /\ f.kind = "object"
  /\ f.currentIndex.t = "num"
  /\ f.currentIndex.n \in 0..(Len(ROTATION_CYCLE) - 1)

\* The files the script may find when it starts
InitialFiles ==
  {AbsentFile, GarbageFile, JsonNullFile, StateFile(Undefined, "undefined"),
   StateFile(Null, "undefined")}
  \cup {StateFile(Num(i), CycleAt(Num(i))) : i \in {0 - 2, 0, 1, 2, 7}}

\* (existing.currentIndex + 1) % ROTATION_CYCLE.length
NextIndexNoWrap(v) == JsPlusOne(v)
NextIndex(v) == JsRemainder(JsPlusOne(v), Len(ROTATION_CYCLE))

\* The index the function settles on: 0 unless the file exists and the
\* try block ran to its end
ReadIndex(f) ==
  CASE f.kind = "absent" -> Num(0)
    [] f.kind = "garbage" -> Num(0)
    [] f.kind = "null" -> Num(0)
    [] OTHER -> NextIndex(f.currentIndex)

\* rotateFactCategory(): writeOk is whether mkdirSync/writeFileSync succeed.
\* Returns [threw, state, file]: the state returned and the file left behind.
rotateFactCategory(f, writeOk) ==
  LET idx == ReadIndex(f)
      state == [currentIndex |-> idx, currentCategory |-> CycleAt(idx)]
  IN IF writeOk
     THEN [threw |-> FALSE, state |-> state,
           file |-> StateFile(JsonNumber(idx), CycleAt(idx))]
     ELSE [threw |-> TRUE, state |-> state, file |-> f]

\* Contents of data/daily-fact.json
NoFact == [category |-> "undefined", fact |-> 0, next_category |-> "undefined"]

\* updateDailyFact(): pick is Math.floor(Math.random() * facts.length).
\* getRandomFact throws on a category FACT_CATEGORIES does not list.
\* Returns [threw, fault, rot, file, fact]: fault names the write that failed.
updateDailyFactResult(f, rotWriteOk, factWriteOk, pick, oldFact) ==
  LET rot == rotateFactCategory(f, rotWriteOk)
      cat == rot.state.currentCategory
  IN IF rot.threw
     THEN [threw |-> TRUE, fault |-> "rotation", rot |-> rot, file |-> f, fact |-> oldFact]
     ELSE IF cat \notin DOMAIN FACT_CATEGORIES
     THEN [threw |-> TRUE, fault |-> "none", rot |-> rot, file |-> rot.file, fact |-> oldFact]
     ELSE IF ~factWriteOk
     THEN [threw |-> TRUE, fault |-> "fact", rot |-> rot, file |-> rot.file, fact |-> oldFact]
     ELSE [threw |-> FALSE, fault |-> "none", rot |-> rot, file |-> rot.file,
           fact |-> [category |-> cat, fact |-> pick % FACT_CATEGORIES[cat],
                     next_category |-> CycleAt(NextIndex(rot.state.currentIndex))]]

InitRotation ==
  /\ rotationFile \in InitialFiles
  /\ dailyFactFile = NoFact
  /\ log = <<>>

\* One invocation of updateDailyFact; log records what it found and did
updateDailyFact ==
  /\ Len(log) < MaxRuns
  /\ \E rotWriteOk \in BOOLEAN, factWriteOk \in BOOLEAN, pick \in 0..4 :
       LET r == updateDailyFactResult(rotationFile, rotWriteOk, factWriteOk, pick, dailyFactFile)
       IN /\ rotationFile' = r.file
          /\ dailyFactFile' = r.fact
          /\ log' = Append(log, [pre |-> rotationFile, post |-> r.file,
                                 rotThrew |-> r.rot.threw, ret |-> r.rot.state,
                                 threw |-> r.threw, fault |-> r.fault])
  /\ UNCHANGED outsideRotation

\* No invocation of updateDailyFact under way or made
IdleRotation ==
  /\ rotationFile = AbsentFile
  /\ dailyFactFile = NoFact
  /\ log = <<>>

NextRotation == updateDailyFact

\* ------------------------------------------------------------------------
\* C1: starting from a persisted rotation state, every invocation of
\* rotateFactCategory that returns persists and returns (previous + 1) mod 3,
\* an index in {0,1,2} with currentCategory = ROTATION_CYCLE[currentIndex];
\* and after four invocations in a row that return, the fourth returns the
\* category of the first.
\* ------------------------------------------------------------------------
RoundRobin ==
  /\ \A k \in 1..Len(log) :
       (IsRotationState(log[k].pre) /\ ~log[k].rotThrew) =>
         /\ log[k].ret.currentIndex = Num((log[k].pre.currentIndex.n + 1) % 3)
         /\ log[k].ret.currentIndex.n \in {0, 1, 2}
         /\ log[k].ret.currentCategory = ROTATION_CYCLE[log[k].ret.currentIndex.n + 1]
         /\ log[k].post = StateFile(log[k].ret.currentIndex, log[k].ret.currentCategory)
         /\ IsRotationState(log[k].post)
  /\ \A k \in 4..Len(log) :
       (/\ IsRotationState(log[k - 3].pre)
        /\ \A j \in (k - 3)..k : ~log[j].rotThrew) =>
         /\ log[k].ret.currentCategory = log[k - 3].ret.currentCategory
         /\ log[k - 2].ret.currentIndex.n = (log[k - 3].ret.currentIndex.n + 1) % 3
         /\ log[k - 1].ret.currentIndex.n = (log[k - 2].ret.currentIndex.n + 1) % 3

RoundRobinWitness ==
  /\ Len(log) = 4
  /\ IsRotationState(log[1].pre)
  /\ \A j \in 1..4 : ~log[j].rotThrew
  /\ log[1].ret.currentIndex = Num(0)
  /\ log[4].ret.currentCategory = log[1].ret.currentCategory

\* ------------------------------------------------------------------------
\* C2: when the rotation file is absent or does not hold a rotation state,
\* one invocation (the file system accepting the writes) completes without
\* throwing and persists and returns currentIndex 0 with category LIFE.
\* ------------------------------------------------------------------------
CorruptStartsAtZero ==
  \A k \in 1..Len(log) :
    (~IsRotationState(log[k].pre) /\ log[k].fault = "none") =>
      /\ ~log[k].threw
      /\ log[k].ret = [currentIndex |-> Num(0), currentCategory |-> "LIFE"]
      /\ log[k].post = StateFile(Num(0), "LIFE")

\* ------------------------------------------------------------------------
\* SECTION 4: closeStaleIssues
\* ------------------------------------------------------------------------
MaxIssues == 3

\* new Date() when closeStaleIssues starts, in days
Now == 100

\* The default of the daysInactive parameter
DEFAULT_DAYS_INACTIVE == 30

\* Ages, in days, of the issues the remote holds
Ages == {5, 30, 31, 45}

\* cutoffDate: now with daysInactive days taken off
cutoffDate(now, days) == now - days

\* The filter of issues.data
IsStaleInclusive(issue, cutoff) == issue.updated_at <= cutoff /\ ~issue.pull_request
IsStale(issue, cutoff) == issue.updated_at < cutoff /\ ~issue.pull_request

\* Where control goes when the awaited createComment settles: a rejection
\* leaves the loop for the catch block
AfterCreateCommentIgnoringFailure(ok) == "update"
AfterCreateComment(ok) == IF ok THEN "update" ELSE "caught"

\* Where control goes when the awaited issues.update settles
AfterUpdate(ok) == IF ok THEN "comment" ELSE "caught"

NoResult == [error |-> FALSE, stale_count |-> 0, closed_count |-> 0, closed |-> <<>>]

\* remoteIssues[n] is issue number n of the repository, all open
InitStale ==
  /\ \E n \in 0..MaxIssues :
       remoteIssues \in [1..n -> [updated_at : {Now - a : a \in Ages},
                                  pull_request : BOOLEAN,
                                  state : {"open"},
                                  state_reason : {"null"},
                                  comments : {0}]]
  /\ daysInactive \in {DEFAULT_DAYS_INACTIVE, 45}
  /\ st_pc = "list"
  /\ staleIssues = <<>>
  /\ st_i = 1
  /\ closed = <<>>
  /\ calls = <<>>
  /\ staleResult = NoResult

\* issues.listForRepo({state: 'open'}): the numbers of the open issues
OpenIssues ==
  LET count[k \in 0..Len(remoteIssues)] ==
        IF k = 0 THEN <<>>
        ELSE IF remoteIssues[k].state = "open" THEN Append(count[k - 1], k)
        ELSE count[k - 1]
  IN count[Len(remoteIssues)]

\* await listForRepo, then the filter; a rejection is caught
listForRepo ==
  /\ st_pc = "list"
  /\ \E ok \in BOOLEAN :
       IF ok
       THEN /\ staleIssues' = SelectSeq(OpenIssues,
                 LAMBDA n : IsStale(remoteIssues[n], cutoffDate(Now, daysInactive)))
            /\ st_pc' = "comment"
       ELSE /\ staleIssues' = staleIssues
            /\ st_pc' = "caught"
  /\ UNCHANGED <<remoteIssues, daysInactive, st_i, closed, calls, staleResult>>
  /\ UNCHANGED outsideStale

\* await octokit.rest.issues.createComment for staleIssues[st_i]
createComment ==
  /\ st_pc = "comment"
  /\ st_i <= Len(staleIssues)
  /\ \E ok \in BOOLEAN :
       LET n == staleIssues[st_i] IN
       /\ calls' = Append(calls, [op |-> "createComment", issue |-> n, ok |-> ok])
       /\ remoteIssues' = IF ok
            THEN [remoteIssues EXCEPT ![n].comments = @ + 1]
            ELSE remoteIssues
       /\ st_pc' = AfterCreateComment(ok)
  /\ UNCHANGED <<daysInactive, staleIssues, st_i, closed, staleResult>>
  /\ UNCHANGED outsideStale

\* await octokit.rest.issues.update({state: 'closed', state_reason:
\* 'not_planned'}), then closed.push and the next iteration
updateIssue ==
  /\ st_pc = "update"
  /\ \E ok \in BOOLEAN :
       LET n == staleIssues[st_i] IN
       /\ calls' = Append(calls, [op |-> "update", issue |-> n, ok |-> ok])
       /\ remoteIssues' = IF ok
            THEN [remoteIssues EXCEPT ![n].state = "closed", ![n].state_reason = "not_planned"]
            ELSE remoteIssues
       /\ closed' = IF ok THEN Append(closed, n) ELSE closed
       /\ st_i' = IF ok THEN st_i + 1 ELSE st_i
       /\ st_pc' = AfterUpdate(ok)
  /\ UNCHANGED <<daysInactive, staleIssues, staleResult>>
  /\ UNCHANGED outsideStale

\* The loop is over: return { repo, stale_count, closed_count, closed }
returnStale ==
  /\ st_pc = "comment"
  /\ st_i > Len(staleIssues)
  /\ staleResult' = [error |-> FALSE, stale_count |-> Len(staleIssues),
                     closed_count |-> Len(closed), closed |-> closed]
  /\ st_pc' = "done"
  /\ UNCHANGED <<remoteIssues, daysInactive, staleIssues, st_i, closed, calls>>
  /\ UNCHANGED outsideStale

\* The catch block: return { repo, error }
catchStale ==
  /\ st_pc = "caught"
  /\ staleResult' = [error |-> TRUE, stale_count |-> 0, closed_count |-> 0, closed |-> <<>>]
  /\ st_pc' = "done"
  /\ UNCHANGED <<remoteIssues, daysInactive, staleIssues, st_i, closed, calls>>
  /\ UNCHANGED outsideStale

\* No call of closeStaleIssues under way or made
IdleStale ==
  /\ remoteIssues = <<>>
  /\ daysInactive = DEFAULT_DAYS_INACTIVE
  /\ st_pc = "idle"
  /\ staleIssues = <<>>
  /\ st_i = 1
  /\ closed = <<>>
  /\ calls = <<>>
  /\ staleResult = NoResult

NextStale == listForRepo \/ createComment \/ updateIssue \/ returnStale \/ catchStale

\* The issues the claim calls stale, stated on the remote's data
StaleNumbers ==
  {n \in DOMAIN remoteIssues :
     remoteIssues[n].updated_at < Now - daysInactive /\ ~remoteIssues[n].pull_request}

\* ------------------------------------------------------------------------
\* C3: a failure of the comment call or of the close call for one stale
\* issue does not abort the others: when closeStaleIssues is done, every
\* stale issue none of whose calls failed has been commented and closed.
\* ------------------------------------------------------------------------
FailureIsolatedPerIssue ==
  (st_pc = "done" /\ calls # <<>>) =>
    \A n \in StaleNumbers :
      (\A c \in 1..Len(calls) : calls[c].issue = n => calls[c].ok) =>
        /\ remoteIssues[n].comments = 1
        /\ remoteIssues[n].state = "closed"

\* ------------------------------------------------------------------------
\* C5: with every API call succeeding, closeStaleIssues comments on and
\* closes exactly the issues updated before now - daysInactive days that are
\* not pull requests, leaves every other issue alone, and returns
\* stale_count = closed_count = their number with closed listing them.
\* ------------------------------------------------------------------------
ClosesExactlyStale ==
  (st_pc = "done" /\ ~staleResult.error) =>
    /\ \A n \in DOMAIN remoteIssues :
         IF n \in StaleNumbers
         THEN /\ remoteIssues[n].comments = 1
              /\ remoteIssues[n].state = "closed"
              /\ remoteIssues[n].state_reason = "not_planned"
         ELSE /\ remoteIssues[n].comments = 0
              /\ remoteIssues[n].state = "open"
    /\ staleResult.stale_count = Cardinality(StaleNumbers)
    /\ staleResult.closed_count = Cardinality(StaleNumbers)
    /\ Len(staleResult.closed) = Cardinality(StaleNumbers)
    /\ {staleResult.closed[i] : i \in 1..Len(staleResult.closed)} = StaleNumbers
    /\ \A i, j \in 1..Len(staleResult.closed) :
         i < j => staleResult.closed[i] < staleResult.closed[j]

\* Ages [5, 31, 45] with threshold 30: exactly the second and third closed
ClosesExactlyStaleWitness ==
  /\ st_pc = "done"
  /\ ~staleResult.error
  /\ daysInactive = 30
  /\ Len(remoteIssues) = 3
  /\ remoteIssues[1].updated_at = Now - 5
  /\ remoteIssues[2].updated_at = Now - 31
  /\ remoteIssues[3].updated_at = Now - 45
  /\ staleResult.closed = <<2, 3>>
  /\ remoteIssues[1].state = "open"

\* ------------------------------------------------------------------------
\* C6: the close of an issue is issued only after the comment on the same
\* issue succeeded, the next comment only after the previous close
\* completed; at most one issue is commented but not closed, no issue is
\* closed without a comment, and a close is with reason not_planned.
\* ------------------------------------------------------------------------
CommentThenCloseInOrder ==
  /\ \A c \in 1..Len(calls) :
       /\ calls[c].op = "update" =>
            /\ c > 1
            /\ calls[c - 1] = [op |-> "createComment", issue |-> calls[c].issue, ok |-> TRUE]
       /\ (calls[c].op = "createComment" /\ c > 1) =>
            /\ calls[c - 1].op = "update"
            /\ calls[c - 1].ok
            /\ calls[c - 1].issue # calls[c].issue
  /\ Cardinality({n \in DOMAIN remoteIssues :
                    remoteIssues[n].comments > 0 /\ remoteIssues[n].state = "open"}) <= 1
  /\ \A n \in DOMAIN remoteIssues :
       remoteIssues[n].state = "closed" =>
         remoteIssues[n].comments = 1 /\ remoteIssues[n].state_reason = "not_planned"

\* Two issues closed in turn, a third commented and its close failed
CommentThenCloseInOrderWitness ==
  /\ Len(calls) = 6
  /\ calls[6] = [op |-> "update", issue |-> 3, ok |-> FALSE]
  /\ remoteIssues[1].state = "closed"
  /\ remoteIssues[2].state = "closed"
  /\ remoteIssues[3].comments = 1
  /\ remoteIssues[3].state = "open"

\* ------------------------------------------------------------------------
\* SECTION 2: fetchRepositoryStats
\* ------------------------------------------------------------------------
MaxPages == 2

\* per_page of the listForUser request
PER_PAGE == 100

\* The string 'N/A'
NA == [t |-> "string", n |-> 0]

\* Pages the remote may answer with (repository names)
PageSamples == {<<>>, <<"a">>, <<"b", "c">>}

\* Answers of getCommitActivityData: a rejection, or the weekly totals
WeekSamples == {<<>>, <<1, 2>>, <<5, 1, 0, 2, 1>>}
Responses == {[ok |-> FALSE, weeks |-> <<>>]} \cup {[ok |-> TRUE, weeks |-> w] : w \in WeekSamples}

\* response.data of page p: the remote lists nothing beyond its last page
PageAt(p) == IF p \in DOMAIN remotePages THEN remotePages[p] ELSE <<>>

\* page++
NextPageSkipping(p) == p + 2
NextPage(p) == p + 1

\* reduce((sum, week) => sum + week.total, 0)
RECURSIVE reduceTotal(_)
reduceTotal(weeks) ==
  IF weeks = <<>> THEN 0 ELSE weeks[1] + reduceTotal(Tail(weeks))

\* slice(-4): the last four elements, or all of fewer
sliceFirst4(weeks) == SubSeq(weeks, 1, IF Len(weeks) < 4 THEN Len(weeks) ELSE 4)
sliceLast4(weeks) == SubSeq(weeks, IF Len(weeks) > 4 THEN Len(weeks) - 3 ELSE 1, Len(weeks))

\* The body of one enrichment task once its request has settled
enrich(repo, resp) ==
  IF resp.ok
  THEN [repo EXCEPT !.total_commits = Num(reduceTotal(resp.weeks)),
                    !.recent_activity = Num(reduceTotal(sliceLast4(resp.weeks)))]
  ELSE [repo EXCEPT !.total_commits = NA, !.recent_activity = NA]

NoFetchResult == [caught |-> FALSE, stats |-> <<>>]
NoResponse == [ok |-> FALSE, weeks |-> <<>>]

InitFetch ==
  /\ remotePages \in [1..MaxPages -> PageSamples]
  /\ page = 1
  /\ repos = <<>>
  /\ requests = <<>>
  /\ f_pc = "paginate"
  /\ pending = {}
  /\ stats = <<>>
  /\ responses = <<>>
  /\ fetchResult = NoFetchResult

IdleFetch ==
  /\ remotePages = <<>>
  /\ page = 1
  /\ repos = <<>>
  /\ requests = <<>>
  /\ f_pc = "idle"
  /\ pending = {}
  /\ stats = <<>>
  /\ responses = <<>>
  /\ fetchResult = NoFetchResult

\* One turn of the while loop: await listForUser; a rejection is caught.
\* On the empty page the loop breaks, repos is mapped to stats and
\* Promise.all starts every enrichment task, each up to its await.
listForUser ==
  /\ f_pc = "paginate"
  /\ requests' = Append(requests, [page |-> page, per_page |-> PER_PAGE])
  /\ \E ok \in BOOLEAN :
       IF ~ok
       THEN /\ f_pc' = "caught"
            /\ UNCHANGED <<page, repos, pending, stats, responses>>
       ELSE IF Len(PageAt(page)) = 0
       THEN /\ f_pc' = "enrich"
            /\ stats' = [i \in 1..Len(repos) |->
                           [name |-> repos[i], total_commits |-> Undefined,
                            recent_activity |-> Undefined]]
            /\ responses' = [i \in 1..Len(repos) |-> NoResponse]
            /\ pending' = 1..Len(repos)
            /\ UNCHANGED <<page, repos>>
       ELSE /\ repos' = repos \o PageAt(page)
            /\ page' = NextPage(page)
            /\ UNCHANGED <<f_pc, pending, stats, responses>>
  /\ UNCHANGED <<remotePages, fetchResult>>
  /\ UNCHANGED outsideFetch

\* getCommitActivityData of one pending task settles, in any order, and
\* the task writes its own record
getCommitActivityData ==
  /\ f_pc = "enrich"
  /\ \E i \in pending, resp \in Responses :
       /\ responses' = [responses EXCEPT ![i] = resp]
       /\ stats' = [stats EXCEPT ![i] = enrich(stats[i], resp)]
       /\ pending' = pending \ {i}
  /\ UNCHANGED <<remotePages, page, repos, requests, f_pc, fetchResult>>
  /\ UNCHANGED outsideFetch

\* Promise.all resolves when every task has: return enrichedStats
returnFetch ==
  /\ f_pc = "enrich"
  /\ pending = {}
  /\ fetchResult' = [caught |-> FALSE, stats |-> stats]
  /\ f_pc' = "done"
  /\ UNCHANGED <<remotePages, page, repos, requests, pending, stats, responses>>
  /\ UNCHANGED outsideFetch

\* The catch block: return []
catchFetch ==
  /\ f_pc = "caught"
  /\ fetchResult' = [caught |-> TRUE, stats |-> <<>>]
  /\ f_pc' = "done"
  /\ UNCHANGED <<remotePages, page, repos, requests, pending, stats, responses>>
  /\ UNCHANGED outsideFetch

NextFetch == listForUser \/ getCommitActivityData \/ returnFetch \/ catchFetch

\* The pages before p, concatenated in page order
RECURSIVE PagesBefore(_)
PagesBefore(p) == IF p <= 1 THEN <<>> ELSE PagesBefore(p - 1) \o PageAt(p - 1)

\* The first page the remote answers empty
FirstEmptyPage == CHOOSE p \in 1..(MaxPages + 1) :
  PageAt(p) = <<>> /\ \A q \in 1..(p - 1) : PageAt(q) # <<>>

PaginationDone == f_pc = "enrich" \/ (f_pc = "done" /\ ~fetchResult.caught)

\* Pages are requested 1, 2, 3, ... with page size 100, none beyond the
\* first empty one; once the empty page has arrived, repos is the
\* concatenation of the pages before it
PaginationExact ==
  /\ \A r \in 1..Len(requests) : requests[r] = [page |-> r, per_page |-> 100]
  /\ Len(requests) <= FirstEmptyPage
  /\ PaginationDone =>
       /\ Len(requests) = FirstEmptyPage
       /\ repos = PagesBefore(FirstEmptyPage)

\* ------------------------------------------------------------------------
\* C7: fetchRepositoryStats requests pages 1, 2, 3, ... with page size 100,
\* stops at the first empty page and then holds exactly the concatenation
\* of the pages before it; the remote answering every request, it
\* terminates.
\* ------------------------------------------------------------------------
PaginationTerminatesExact == []PaginationExact /\ <>(f_pc = "done")

PaginationWitness ==
  /\ PaginationDone
  /\ Len(requests) = 3
  /\ repos = <<"b", "c", "a">>

\* The sum of the elements of a sequence of numbers
RECURSIVE SumOf(_)
SumOf(w) == IF Len(w) = 0 THEN 0 ELSE SumOf(SubSeq(w, 1, Len(w) - 1)) + w[Len(w)]

\* ------------------------------------------------------------------------
\* C8: whatever the order in which the commit-activity requests settle and
\* whichever fail, every record gets total_commits (all weeks) and
\* recent_activity (last 4 weeks) from its own response, 'N/A' for both
\* when its own request failed, nothing before it settled; no failure
\* fails the collection, and the result has one record per listed
\* repository in listing order.
\* ------------------------------------------------------------------------
EnrichmentIsolated ==
  PaginationDone =>
    /\ Len(stats) = Len(repos)
    /\ \A i \in 1..Len(stats) :
         /\ stats[i].name = repos[i]
         /\ IF i \in pending
            THEN stats[i].total_commits = Undefined /\ stats[i].recent_activity = Undefined
            ELSE IF ~responses[i].ok
            THEN stats[i].total_commits = NA /\ stats[i].recent_activity = NA
            ELSE LET w == responses[i].weeks
                     last == {k \in 1..Len(w) : k > Len(w) - 4}
                 IN /\ stats[i].total_commits = Num(SumOf(w))
                    /\ stats[i].recent_activity =
                         Num(SumOf(w) - SumOf(SubSeq(w, 1, Len(w) - Cardinality(last))))
    /\ f_pc = "done" => (pending = {} /\ fetchResult.stats = stats)

\* Three repositories: the third's request, of more than four weeks, has
\* settled and the second's has failed while the first's is still awaited
EnrichmentWitness ==
  /\ f_pc = "enrich"
  /\ Len(stats) = 3
  /\ pending = {1}
  /\ ~responses[2].ok
  /\ stats[2].recent_activity = NA
  /\ responses[3].weeks = <<5, 1, 0, 2, 1>>
  /\ stats[3].total_commits = Num(9)
  /\ stats[3].recent_activity = Num(4)
  /\ stats[1].total_commits = Undefined

\* ------------------------------------------------------------------------
\* SECTION 2: saveRepositoryStats
\* ------------------------------------------------------------------------
MaxStats == 6

\* slice(0, 5)
TOP_N == 5

\* recent_activity of the records passed in: sums, or the 'N/A' sentinel
ActivitySamples == {Num(0), Num(1), Num(5), NA}

\* x || 0: undefined, null, NaN and 0 are falsy; a non-empty string is not
OrZero(v) == IF v.t \in {"undefined", "null", "nan"} \/ v = Num(0) THEN Num(0) ELSE v

\* x - y: ToNumber of 'N/A' is NaN, and NaN spreads
JsMinus(x, y) ==
  LET a == IF x.t = "string" THEN NaN ELSE ToNumber(x)
      b == IF y.t = "string" THEN NaN ELSE ToNumber(y)
  IN IF a.t = "nan" \/ b.t = "nan" THEN NaN ELSE Num(a.n - b.n)

\* (a, b) => (b.recent_activity || 0) - (a.recent_activity || 0)
comparefn(a, b) == JsMinus(OrZero(b.recent_activity), OrZero(a.recent_activity))

\* What Array.prototype.sort makes of the comparator's value: NaN counts 0
SortCompare(a, b) ==
  LET v == comparefn(a, b) IN IF v.t = "nan" THEN 0 ELSE v.n

\* Array.prototype.sort as Node's engine runs it on an array shorter than
\* 64: the leading run is found (and reversed when strictly descending),
\* then the rest is inserted by binary search.
RECURSIVE RunEnd(_, _, _)
RunEnd(arr, idx, descending) ==
  IF idx > Len(arr) THEN idx - 1
  ELSE LET order == SortCompare(arr[idx], arr[idx - 1])
       IN IF (descending /\ order >= 0) \/ (~descending /\ order < 0)
          THEN idx - 1
          ELSE RunEnd(arr, idx + 1, descending)

Reverse(arr) == [i \in 1..Len(arr) |-> arr[Len(arr) + 1 - i]]

\* The array with its leading run made ascending, and the run's length
MakeRun(arr) ==
  LET descending == SortCompare(arr[2], arr[1]) < 0
      len == RunEnd(arr, 3, descending)
  IN [len |-> len,
      arr |-> IF descending
              THEN Reverse(SubSeq(arr, 1, len)) \o SubSeq(arr, len + 1, Len(arr))
              ELSE arr]

\* Where the pivot goes among arr[left+1 .. right]
RECURSIVE InsertionPoint(_, _, _, _)
InsertionPoint(arr, pivot, left, right) ==
  IF left >= right THEN left
  ELSE LET mid == left + ((right - left) \div 2)
       IN IF SortCompare(pivot, arr[mid + 1]) < 0
          THEN InsertionPoint(arr, pivot, left, mid)
          ELSE InsertionPoint(arr, pivot, mid + 1, right)

\* arr[1 .. start] is sorted: insert arr[start+1], and so on to the end
RECURSIVE BinaryInsertionSort(_, _)
BinaryInsertionSort(arr, start) ==
  IF start >= Len(arr) THEN arr
  ELSE LET pivot == arr[start + 1]
           left == InsertionPoint(arr, pivot, 0, start)
       IN BinaryInsertionSort(
            SubSeq(arr, 1, left) \o <<pivot>> \o SubSeq(arr, left + 1, start)
              \o SubSeq(arr, start + 2, Len(arr)),
            start + 1)

\* stats.sort(comparefn)
sort(arr) ==
  IF Len(arr) < 2 THEN arr
  ELSE LET run == MakeRun(arr) IN BinaryInsertionSort(run.arr, run.len)

\* .slice(0, 5).map(r => ({ name: r.name, activity: r.recent_activity }))
most_active(arr) ==
  LET sorted == sort(arr)
      n == IF Len(sorted) < TOP_N THEN Len(sorted) ELSE TOP_N
  IN [i \in 1..n |-> [name |-> sorted[i].name, activity |-> sorted[i].recent_activity]]

\* The records are named by their position in the argument
InitRank ==
  /\ \E n \in 0..MaxStats :
       \E act \in [1..n -> ActivitySamples] :
         rankInput = [i \in 1..n |-> [name |-> i, recent_activity |-> act[i]]]
  /\ rank_pc = "call"
  /\ summary = <<>>

IdleRank == rankInput = <<>> /\ rank_pc = "idle" /\ summary = <<>>

\* saveRepositoryStats(stats): the summary is built, then written; a
\* failed mkdirSync/writeFileSync throws
saveRepositoryStats ==
  /\ rank_pc = "call"
  /\ \E writeOk \in BOOLEAN :
       IF writeOk
       THEN rank_pc' = "saved" /\ summary' = most_active(rankInput)
       ELSE rank_pc' = "threw" /\ summary' = summary
  /\ UNCHANGED rankInput
  /\ UNCHANGED outsideRank

NextRank == saveRepositoryStats

\* ------------------------------------------------------------------------
\* C10: for every sequence of records, 'N/A' ones included, most_active has
\* length min(5, number of repos), its numeric recent_activity values
\* descend, and records of equal recent_activity keep their original order.
\* ------------------------------------------------------------------------
MostActiveSortedStable ==
  rank_pc = "saved" =>
    /\ Len(summary) = (IF Len(rankInput) < 5 THEN Len(rankInput) ELSE 5)
    /\ \A i, j \in 1..Len(summary) :
         i < j =>
           /\ (summary[i].activity.t = "num" /\ summary[j].activity.t = "num") =>
                summary[i].activity.n >= summary[j].activity.n
           /\ summary[i].activity = summary[j].activity =>
                summary[i].name < summary[j].name

\* ------------------------------------------------------------------------
\* SECTION 3 and 4: runLinters and generateHealthReport
\* ------------------------------------------------------------------------
MaxVuln == 2
MaxReportRepos == 7

\* Object.keys(linterConfigs)
linterConfigs == <<"js", "py", "json">>

NoLint == [checks |-> <<>>, total |-> 0, passed |-> 0, failed |-> 0]
NoReport == [repositories |-> 0, critical |-> 0, high |-> 0, recommendations |-> <<>>]

\* The results object after the forEach: ran[i] is whether execSync and
\* JSON.parse of linter i went through
lintResultsOf(ran) ==
  [checks |-> [i \in 1..Len(linterConfigs) |->
                 [type |-> "object", language |-> linterConfigs[i],
                  status |-> IF ran[i] THEN "executed" ELSE "error"]],
   total |-> Cardinality({i \in 1..Len(linterConfigs) : ran[i]}),
   passed |-> Cardinality({i \in 1..Len(linterConfigs) : ran[i]}),
   failed |-> Cardinality({i \in 1..Len(linterConfigs) : ~ran[i]})]

\* Object.keys of an array: its indices, as strings
ObjectKeys(arr) == [i \in 1..Len(arr) |-> [type |-> "string", value |-> i - 1]]

\* c.status: a string has no such property
PropertyStatus(c) == IF c.type = "object" THEN c.status ELSE "undefined"

\* Object.keys(lintResults.checks).some(c => c.status === 'failed')
someFailed(checks) ==
  \E k \in 1..Len(ObjectKeys(checks)) : PropertyStatus(ObjectKeys(checks)[k]) = "failed"

\* The four rules, each pushing at most one message
recommendations(lint, critical, high, total_repos, active_repos) ==
  LET r1 == IF critical > 0 THEN <<"CRITICAL">> ELSE <<>>
      r2 == IF high > 0 THEN Append(r1, "HIGH") ELSE r1
      r3 == IF someFailed(lint.checks) THEN Append(r2, "MEDIUM") ELSE r2
  IN IF total_repos - active_repos > 5 THEN Append(r3, "ARCHIVE") ELSE r3

InitReport == lintResults = NoLint /\ report_pc = "lint" /\ report = NoReport

IdleReport == lintResults = NoLint /\ report_pc = "idle" /\ report = NoReport

\* runLinters(): every linter is tried; a failure is recorded, not thrown
runLinters ==
  /\ report_pc = "lint"
  /\ \E ran \in [1..Len(linterConfigs) -> BOOLEAN] : lintResults' = lintResultsOf(ran)
  /\ report_pc' = "linted"
  /\ UNCHANGED report
  /\ UNCHANGED outsideReport

\* generateHealthReport(lintResults, vulnResults, statsData): the report
\* carries statsData.active_repos, the vulnerability summary and the
\* recommendations; a failed mkdirSync/writeFileSync throws
generateHealthReport ==
  /\ report_pc = "linted"
  /\ \E critical \in 0..MaxVuln, high \in 0..MaxVuln,
        total_repos \in 0..MaxReportRepos, writeOk \in BOOLEAN :
       \E active_repos \in 0..total_repos :
         IF writeOk
         THEN /\ report' = [repositories |-> active_repos,
                             critical |-> critical, high |-> high,
                             recommendations |->
                   recommendations(lintResults, critical, high, total_repos, active_repos)]
              /\ report_pc' = "reported"
         ELSE /\ report' = report
              /\ report_pc' = "threw"
  /\ UNCHANGED lintResults
  /\ UNCHANGED outsideReport

NextReport == runLinters \/ generateHealthReport

\* ------------------------------------------------------------------------
\* C9: each rule appends at most one message, and the linting
\* recommendation is in the report exactly when runLinters marked at least
\* one scanner failed, whatever the other inputs.
\* ------------------------------------------------------------------------
LintRecommendationWhenFailed ==
  report_pc = "reported" =>
    /\ \A i, j \in 1..Len(report.recommendations) :
         i # j => report.recommendations[i] # report.recommendations[j]
    /\ (\E i \in 1..Len(report.recommendations) : report.recommendations[i] = "MEDIUM")
         <=> lintResults.failed > 0

\* ------------------------------------------------------------------------
\* MAIN EXECUTION: runDailyMaintenance
\* ------------------------------------------------------------------------
MaxMainRepos == 6

\* repoStats.slice(0, 5)
LIFECYCLE_REPOS == 5

\* sections_completed of a successful run
SECTIONS_COMPLETED == 6

NoMainResult == [success |-> FALSE, sections_completed |-> 0]

InitMain ==
  /\ rotationFile \in InitialFiles
  /\ dailyFactFile = NoFact
  /\ m_pc = "updateDailyFact"
  /\ invoked = <<>>
  /\ repoStats = <<>>
  /\ m_k = 1
  /\ maintenanceResults = 0
  /\ mainResult = NoMainResult

IdleMain ==
  /\ m_pc = "idle"
  /\ invoked = <<>>
  /\ repoStats = <<>>
  /\ m_k = 1
  /\ maintenanceResults = 0
  /\ mainResult = NoMainResult

\* What a call that returned or threw does to the orchestrator
callDone(name, threw, next) ==
  /\ invoked' = Append(invoked, name)
  /\ m_pc' = IF threw THEN "caught" ELSE next

\* 1. updateDailyFact() is not wrapped: what it throws reaches the catch
\* of runDailyMaintenance
mainUpdateDailyFact ==
  /\ m_pc = "updateDailyFact"
  /\ \E rotWriteOk \in BOOLEAN, factWriteOk \in BOOLEAN, pick \in 0..4 :
       LET r == updateDailyFactResult(rotationFile, rotWriteOk, factWriteOk, pick, dailyFactFile)
       IN /\ rotationFile' = r.file
          /\ dailyFactFile' = r.fact
          /\ callDone("updateDailyFact", r.threw, "fetchRepositoryStats")
  /\ UNCHANGED <<repoStats, m_k, maintenanceResults, mainResult>>
  /\ UNCHANGED outsideMain

\* 2. fetchRepositoryStats catches everything: it returns the records
\* (here their is_archived flags) or, having caught, []
mainFetchRepositoryStats ==
  /\ m_pc = "fetchRepositoryStats"
  /\ \E n \in 0..MaxMainRepos : \E archived \in [1..n -> BOOLEAN] : repoStats' = archived
  /\ callDone("fetchRepositoryStats", FALSE, "saveRepositoryStats")
  /\ UNCHANGED <<rotationFile, dailyFactFile, m_k, maintenanceResults, mainResult>>
  /\ UNCHANGED outsideMain

\* saveRepositoryStats is not wrapped either; it sorts repoStats in place,
\* and repoStats stands for the flags in the order it leaves
mainSaveRepositoryStats ==
  /\ m_pc = "saveRepositoryStats"
  /\ \E writeOk \in BOOLEAN : callDone("saveRepositoryStats", ~writeOk, "runLinters")
  /\ UNCHANGED <<rotationFile, dailyFactFile, repoStats, m_k, maintenanceResults, mainResult>>
  /\ UNCHANGED outsideMain

\* 3. runLinters, checkDependencyUpdates and scanSecurityVulnerabilities
\* catch what their tools throw
mainRunLinters ==
  /\ m_pc = "runLinters"
  /\ callDone("runLinters", FALSE, "checkDependencyUpdates")
  /\ UNCHANGED <<rotationFile, dailyFactFile, repoStats, m_k, maintenanceResults, mainResult>>
  /\ UNCHANGED outsideMain

mainCheckDependencyUpdates ==
  /\ m_pc = "checkDependencyUpdates"
  /\ callDone("checkDependencyUpdates", FALSE, "scanSecurityVulnerabilities")
  /\ UNCHANGED <<rotationFile, dailyFactFile, repoStats, m_k, maintenanceResults, mainResult>>
  /\ UNCHANGED outsideMain

mainScanSecurityVulnerabilities ==
  /\ m_pc = "scanSecurityVulnerabilities"
  /\ callDone("scanSecurityVulnerabilities", FALSE, "lifecycle")
  /\ UNCHANGED <<rotationFile, dailyFactFile, repoStats, m_k, maintenanceResults, mainResult>>
  /\ UNCHANGED outsideMain

\* 4. One turn of the loop over repoStats.slice(0, 5): closeStaleIssues and
\* autoLabelIssues of a repository that is not archived; both return an
\* { error } object instead of throwing
mainLifecycle ==
  /\ m_pc = "lifecycle"
  /\ m_k <= LIFECYCLE_REPOS
  /\ m_k <= Len(repoStats)
  /\ IF repoStats[m_k]
     THEN UNCHANGED <<invoked, maintenanceResults>>
     ELSE \E staleError \in BOOLEAN, labelError \in BOOLEAN :
            /\ invoked' = invoked \o <<"closeStaleIssues", "autoLabelIssues">>
            /\ maintenanceResults' = maintenanceResults + 1
  /\ m_k' = m_k + 1
  /\ UNCHANGED <<rotationFile, dailyFactFile, repoStats, m_pc, mainResult>>
  /\ UNCHANGED outsideMain

\* 5. generateHealthReport is not wrapped
mainGenerateHealthReport ==
  /\ m_pc = "lifecycle"
  /\ m_k > LIFECYCLE_REPOS \/ m_k > Len(repoStats)
  /\ \E writeOk \in BOOLEAN : callDone("generateHealthReport", ~writeOk, "return")
  /\ UNCHANGED <<rotationFile, dailyFactFile, repoStats, m_k, maintenanceResults, mainResult>>
  /\ UNCHANGED outsideMain

\* 6. return { success: true, sections_completed: 6, ... }
mainReturn ==
  /\ m_pc = "return"
  /\ mainResult' = [success |-> TRUE, sections_completed |-> SECTIONS_COMPLETED]
  /\ m_pc' = "done"
  /\ UNCHANGED <<rotationFile, dailyFactFile, invoked, repoStats, m_k, maintenanceResults>>
  /\ UNCHANGED outsideMain

\* The catch block: return { success: false, error }
mainCatch ==
  /\ m_pc = "caught"
  /\ mainResult' = NoMainResult
  /\ m_pc' = "done"
  /\ UNCHANGED <<rotationFile, dailyFactFile, invoked, repoStats, m_k, maintenanceResults>>
  /\ UNCHANGED outsideMain

NextMain ==
  \/ mainUpdateDailyFact
  \/ mainFetchRepositoryStats
  \/ mainSaveRepositoryStats
  \/ mainRunLinters
  \/ mainCheckDependencyUpdates
  \/ mainScanSecurityVulnerabilities
  \/ mainLifecycle
  \/ mainGenerateHealthReport
  \/ mainReturn
  \/ mainCatch

\* The calls other than the per-repository lifecycle calls
SectionCalls ==
  SelectSeq(invoked, LAMBDA c : c \notin {"closeStaleIssues", "autoLabelIssues"})

\* ------------------------------------------------------------------------
\* C4: runDailyMaintenance invokes fact rotation, repository statistics,
\* linters, dependency check, vulnerability scan, lifecycle management and
\* health report in this order whatever fails inside a section, and returns
\* success: true with sections_completed 6.
\* ------------------------------------------------------------------------
EverySectionRunsAndSucceeds ==
  m_pc = "done" =>
    /\ SectionCalls = <<"updateDailyFact", "fetchRepositoryStats", "saveRepositoryStats",
                        "runLinters", "checkDependencyUpdates",
                        "scanSecurityVulnerabilities", "generateHealthReport">>
    /\ maintenanceResults =
         Cardinality({k \in 1..Len(repoStats) : k <= 5 /\ ~repoStats[k]})
    /\ mainResult = [success |-> TRUE, sections_completed |-> 6]

\* ------------------------------------------------------------------------
\* Specifications
\* ------------------------------------------------------------------------
\* Each specification starts one function and leaves the others idle
StartRotation == InitRotation /\ IdleStale /\ IdleFetch /\ IdleRank /\ IdleReport /\ IdleMain
StartStale == IdleRotation /\ InitStale /\ IdleFetch /\ IdleRank /\ IdleReport /\ IdleMain
StartFetch == IdleRotation /\ IdleStale /\ InitFetch /\ IdleRank /\ IdleReport /\ IdleMain
StartRank == IdleRotation /\ IdleStale /\ IdleFetch /\ InitRank /\ IdleReport /\ IdleMain
StartReport == IdleRotation /\ IdleStale /\ IdleFetch /\ IdleRank /\ InitReport /\ IdleMain
StartMain == log = <<>> /\ IdleStale /\ IdleFetch /\ IdleRank /\ IdleReport /\ InitMain

SpecRotation == StartRotation /\ [][NextRotation]_vars

SpecStale == StartStale /\ [][NextStale]_vars

SpecRank == StartRank /\ [][NextRank]_vars

SpecReport == StartReport /\ [][NextReport]_vars

SpecMain == StartMain /\ [][NextMain]_vars

\* Every request the script awaits is answered, so a step that can be
\* taken is taken
SpecFetch == StartFetch /\ [][NextFetch]_vars /\ WF_vars(NextFetch)

====
